---- MODULE Spec2Model ----
(***************************************************************************)
(* A model of the Goodreads scraper: the crawler (src/html_scraper.py),    *)
(* and the ingestion pipeline (src/db_population.py, src/models.py).       *)
(*                                                                         *)
(* Three specifications share the module:                                  *)
(*   SpecFetch   one call of get_request, every fault class;               *)
(*   SpecCrawl   main/crawl_user of html_scraper.py over a user-id range;  *)
(*   SpecIngest  main of db_population.py over the files of a folder.      *)
(***************************************************************************)
EXTENDS Integers, Sequences, FiniteSets, TLC

\* ------------------------------------------------------------------ bounds

\* --user_id_start / --user_id_end of the crawler's command line.
USER_ID_START == 1
USER_ID_END == 2
\* The largest last-page label a page 1 carries in the model.
MaxPages == 4
\* The wave size of process_requests / process_html_files.  The source sets
\* 512; the model scales it down so that several waves happen within MaxPages.
MAX_ASYNC_TASKS == 2

VARIABLES
    \* ---- html_scraper.py
    call,            \* the get_request call for page 1 (crawl_user line 91)
    pc,              \* where main / crawl_user stands
    user_id,         \* the loop variable of main
    last_page,       \* crawl_user's last_page (0: not parsed)
    tasks,           \* page_tasks of process_requests: page -> call
    wave,            \* the offset i of the running wave (requests or saves)
    page_responses,  \* the responses process_requests has collected
    saved,           \* the indexes of page_responses whose save_html has run
    files,           \* HTML_DIR: the set of <<user_id, page>> artifacts
    \* ---- history of the crawl (not program state)
    label,           \* user -> the last-page label parsed from its page 1
    first,           \* user -> the page-1 response crawl_user acted on
    failed,          \* the users one of whose fetches exhausted its retries
    returned,        \* the users whose crawl_user returned normally
    \* ---- db_population.py
    disk,            \* the html folder: path -> file contents
    chunk_size,      \* --chunk_size
    files_df,        \* the candidate list of extract_file_list
    chunk_no,        \* which batch of batched(files_df, chunk_size) is in hand
    pc_db,           \* where db_population.main stands
    html_file_contents, \* the (user_id, html) pairs not yet extracted
    batch_inserts,   \* the chunk's shared set of records
    raised,          \* an extraction task of the chunk raised
    to_merge,        \* the records of the batch not yet merged
    session,         \* the store as the open transaction sees it
    merged,          \* the records merged in the open transaction, in order
    store,           \* goodreads.db: the committed tables
    \* ---- history of the ingestion (not program state)
    ingested,        \* the paths whose chunk has been committed
    latest,          \* per key, the record last added to the chunk's batch
    latest_run,      \* per key, the record last extracted in the run
    last_merged,     \* per key, the record last merged and committed
    \* ---- one row of extract_books (db_population.py 131-149)
    row_pc,             \* where the row's extraction stands
    date_published_str, \* the text of the row's date_pub cell
    user_rating_text,   \* the text of the row's rating cell
    user_rating,        \* line 133
    date_published      \* line 148

crawlVars == <<call, pc, user_id, last_page, tasks, wave, page_responses,
               saved, files, label, first, failed, returned>>

dbVars == <<disk, chunk_size, files_df, chunk_no, pc_db, html_file_contents,
            batch_inserts, raised, to_merge, session, merged, store,
            ingested, latest, latest_run, last_merged>>

rowVars == <<row_pc, date_published_str, user_rating_text, user_rating,
             date_published>>

vars == <<crawlVars, dbVars, rowVars>>

\* ------------------------------------------------------- get_request (53-66)

ReadTimeout == "ReadTimeout"
\* The exception classes get_request catches (line 60).
Transient == {ReadTimeout, "ConnectError", "RemoteProtocolError", "ReadError"}
\* An httpx exception get_request does not catch: it propagates at once.
Uncaught == {"ConnectTimeout"}

NoResponse == [kind |-> "none", page |-> 0, last_page |-> 0]

\* What a response is, as far as save_html and crawl_user read it:
\*   "listing"     a review list; last_page is the label of the second-to-last
\*                 pagination link, 0 when the page has no pagination links
\*   "moved"       status_code 301 on the final response
\*   "root"        final url is the site root and history[0] is a 301
\*   "restricted"  the body carries the restricted-profile marker
\* page is the request's page parameter.
Response(kind, page, n) == [kind |-> kind, page |-> page, last_page |-> n]

FirstPageResponses ==
    {Response("listing", 1, n) : n \in {0} \cup (2..MaxPages)}
    \cup {Response(k, 1, 0) : k \in {"moved", "root", "restricted"}}

\* A later page of a subject whose page 1 was a listing is a listing.
LaterPageResponses(p) == {Response("listing", p, 0)}

ResponsesFor(p) == IF p = 1 THEN FirstPageResponses ELSE LaterPageResponses(p)

\* A get_request call: the attempt parameter, the number of client.get calls
\* issued so far (calls), and which fault classes it has met: whether a
\* read-timeout and whether another class, the class of the latest fault
\* (fault) and the number of read-timeouts (rts).
NewCall(u, p) ==
    [user_id |-> u, page_number |-> p, attempt |-> 1, calls |-> 0,
     status |-> "pending", exc |-> "none", response |-> NoResponse,
     seenRT |-> FALSE, seenOther |-> FALSE, fault |-> "none", rts |-> 0]

Started(c) == [c EXCEPT !.status = "running"]

\* The call's frame is gone once its caller has taken the response.
Finished(c) ==
    [NewCall(c.user_id, c.page_number) EXCEPT !.status = "finished",
                                              !.response = c.response]

\* Line 61: 20 if isinstance(exc, httpx.ReadTimeout) else 5.
Ceiling(exc) == IF exc = ReadTimeout THEN 20 ELSE 5

ExhaustedOffByOne(attempt, exc) == attempt > Ceiling(exc)

\* Line 61: attempt >= ceiling.
Exhausted(attempt, exc) == attempt >= Ceiling(exc)

Met(c, exc) ==
    [c EXCEPT !.calls = @ + 1,
              !.seenRT = @ \/ exc = ReadTimeout,
              !.seenOther = @ \/ exc # ReadTimeout,
              !.fault = exc,
              !.rts = IF exc = ReadTimeout THEN @ + 1 ELSE @]

\* Line 59 returned a response: line 66.
GetRequestReturns(c, r) ==
    [c EXCEPT !.calls = @ + 1, !.status = "returned", !.response = r]

\* A get_request that keeps one attempt counter per fault class.
GetRequestFaultsPerClass(c, exc) ==
    IF /\ exc \in Transient
       /\ ~Exhausted(IF exc = ReadTimeout THEN c.rts + 1
                     ELSE c.calls - c.rts + 1, exc)
    THEN [Met(c, exc) EXCEPT !.attempt = @ + 1]
    ELSE [Met(c, exc) EXCEPT !.status = "raised", !.exc = exc]

\* Line 59 raised exc: lines 60-65.  A caught fault below its ceiling sleeps
\* one second and calls get_request again with attempt + 1; at the ceiling,
\* or when the exception is not caught, the exception leaves get_request.
GetRequestFaults(c, exc) ==
    IF exc \in Transient /\ ~Exhausted(c.attempt, exc)
    THEN [Met(c, exc) EXCEPT !.attempt = @ + 1]
    ELSE [Met(c, exc) EXCEPT !.status = "raised", !.exc = exc]

\* Every result one more client.get can give the running call c.
GetRequestStep(c, faults) ==
    {GetRequestReturns(c, r) : r \in ResponsesFor(c.page_number)}
    \cup {GetRequestFaults(c, exc) : exc \in faults}

\* ------------------------------------------------- the store (models.py)

EmptyStore == [User |-> {}, Author |-> {}, Book |-> {}, Rating |-> {}]

\* db_population.main before it has listed a folder.
InitDbIdle ==
    /\ disk = <<>>
    /\ chunk_size = 1
    /\ files_df = <<>>
    /\ chunk_no = 0
    /\ pc_db = "list"
    /\ html_file_contents = {}
    /\ batch_inserts = {}
    /\ raised = FALSE
    /\ to_merge = {}
    /\ session = EmptyStore
    /\ merged = <<>>
    /\ store = EmptyStore
    /\ ingested = {}
    /\ latest = {}
    /\ latest_run = {}
    /\ last_merged = {}

\* No row of extract_books is in hand.
InitRowIdle ==
    /\ row_pc = "idle"
    /\ date_published_str = <<>>
    /\ user_rating_text = ""
    /\ user_rating = 0
    /\ date_published = [cls |-> "None"]

\* --------------------------------------------------------------- SpecFetch

Idle == <<>>

InitCrawlRest ==
    /\ pc = "loop"
    /\ user_id = USER_ID_START
    /\ last_page = 0
    /\ tasks = Idle
    /\ wave = 0
    /\ page_responses = <<>>
    /\ saved = {}
    /\ files = {}
    /\ label = [u \in USER_ID_START..USER_ID_END |-> 0]
    /\ first = [u \in USER_ID_START..USER_ID_END |-> NoResponse]
    /\ failed = {}
    /\ returned = {}

InitFetch ==
    /\ InitDbIdle
    /\ InitRowIdle
    /\ call \in {Started(NewCall(u, p)) : u \in USER_ID_START..USER_ID_END,
                                          p \in 1..MaxPages}
    /\ InitCrawlRest

\* One attempt of the call under test, with any fault httpx can raise.
FetchAttempt ==
    /\ call.status = "running"
    /\ call' \in GetRequestStep(call, Transient \cup Uncaught)
    /\ UNCHANGED <<pc, user_id, last_page, tasks, wave, page_responses,
                   saved, files, label, first, failed, returned>>
    /\ UNCHANGED dbVars
    /\ UNCHANGED rowVars

NextFetch == FetchAttempt

SpecFetch == InitFetch /\ [][NextFetch]_vars

\* --------------------------------------------------------------- SpecCrawl

\* The fault class the crawl's fetches meet in SpecCrawl (SpecFetch covers every
\* class): the class with the lower ceiling.
CrawlFaults == {"ConnectError"}

\* A save_html that does not look for the restricted-profile marker.
SaveHtmlIgnoresMarker(fs, u, r) ==
    IF r.kind = "root" THEN fs ELSE fs \cup {<<u, r.page>>}

\* save_html (39-50): nothing is written for a redirect to the site root or
\* for a restricted profile; otherwise the body goes to user_<id>_<page>.html.
SaveHtml(fs, u, r) ==
    IF r.kind = "root" THEN fs
    ELSE IF r.kind = "restricted" THEN fs
    ELSE fs \cup {<<u, r.page>>}

\* Lines 74-75: the pages of the wave at offset i of page_tasks
\* (page_tasks[k] is the fetch of page k + 2).
WavePages(i) ==
    {p \in DOMAIN tasks : i <= p - 2 /\ p - 2 < i + MAX_ASYNC_TASKS}

\* Lines 84-85: the indexes (from 1) of the save wave at offset i.
SaveWave(i) ==
    {k \in 1..Len(page_responses) : i < k /\ k <= i + MAX_ASYNC_TASKS}

\* A process_requests that gathers every call of page_tasks at once.
StartWaveAll(ts, i) == [p \in DOMAIN ts |-> Started(ts[p])]

\* gather starts the calls of the wave at offset i.
StartWave(ts, i) ==
    [p \in DOMAIN ts |->
        IF i <= p - 2 /\ p - 2 < i + MAX_ASYNC_TASKS THEN Started(ts[p]) ELSE ts[p]]

\* gather has returned the results of the wave at offset i.
EndWave(ts, i) ==
    [p \in DOMAIN ts |->
        IF i <= p - 2 /\ p - 2 < i + MAX_ASYNC_TASKS THEN Finished(ts[p]) ELSE ts[p]]

\* gather's result for the wave at offset i: the responses in task order.
WaveResponses(i) ==
    [k \in 1..Cardinality(WavePages(i)) |-> tasks[i + 1 + k].response]

InitCrawl ==
    /\ InitDbIdle
    /\ InitRowIdle
    /\ call = NewCall(USER_ID_START, 1)
    /\ InitCrawlRest

\* crawl_user returns: main's loop goes on to the next user id (112-113).
NextUser ==
    /\ pc' = "loop"
    /\ user_id' = user_id + 1
    /\ returned' = returned \cup {user_id}
    /\ call' = NewCall(user_id + 1, 1)
    /\ last_page' = 0
    /\ tasks' = Idle
    /\ wave' = 0
    /\ page_responses' = <<>>
    /\ saved' = {}
    /\ UNCHANGED dbVars
    /\ UNCHANGED rowVars

\* An exception leaves crawl_user.  main (105-113) has no handler: it leaves
\* main and asyncio.run as well, and the process ends.
Propagate ==
    /\ pc' = "crashed"
    /\ failed' = failed \cup {user_id}
    /\ UNCHANGED <<call, user_id, last_page, tasks, wave, page_responses,
                   saved, files, label, first, returned>>
    /\ UNCHANGED dbVars
    /\ UNCHANGED rowVars

\* main 112-113, crawl_user 91: the next user's page 1 is requested.
StartCrawl ==
    /\ pc = "loop"
    /\ user_id <= USER_ID_END
    /\ pc' = "page1"
    /\ call' = Started(NewCall(user_id, 1))
    /\ UNCHANGED <<user_id, last_page, tasks, wave, page_responses, saved,
                   files, label, first, failed, returned>>
    /\ UNCHANGED dbVars
    /\ UNCHANGED rowVars

\* main 112: the range is exhausted.
Finish ==
    /\ pc = "loop"
    /\ user_id > USER_ID_END
    /\ pc' = "done"
    /\ UNCHANGED <<call, user_id, last_page, tasks, wave, page_responses,
                   saved, files, label, first, failed, returned>>
    /\ UNCHANGED dbVars
    /\ UNCHANGED rowVars

\* One client.get of the page-1 call.
Page1Attempt ==
    /\ pc = "page1"
    /\ call.status = "running"
    /\ call' \in GetRequestStep(call, CrawlFaults)
    /\ UNCHANGED <<pc, user_id, last_page, tasks, wave, page_responses,
                   saved, files, label, first, failed, returned>>
    /\ UNCHANGED dbVars
    /\ UNCHANGED rowVars

\* crawl_user 91: the page-1 call raised.
Page1Raised ==
    /\ pc = "page1"
    /\ call.status = "raised"
    /\ Propagate

\* crawl_user 92-93: status 301, nothing to do.
CrawlMoved ==
    /\ pc = "page1"
    /\ call.status = "returned"
    /\ call.response.kind = "moved"
    /\ first' = [first EXCEPT ![user_id] = call.response]
    /\ NextUser
    /\ UNCHANGED <<files, label, failed>>

\* A crawl_user that returns without saving a page 1 that has no pagination
\* links.
CrawlSinglePageUnsaved ==
    /\ pc = "page1"
    /\ call.status = "returned"
    /\ call.response.kind # "moved"
    /\ call.response.last_page = 0
    /\ first' = [first EXCEPT ![user_id] = call.response]
    /\ NextUser
    /\ UNCHANGED <<files, label, failed>>

\* crawl_user 101-102: no pagination links, page 1 is handed to save_html.
CrawlSinglePage ==
    /\ pc = "page1"
    /\ call.status = "returned"
    /\ call.response.kind # "moved"
    /\ call.response.last_page = 0
    /\ files' = SaveHtml(files, user_id, call.response)
    /\ first' = [first EXCEPT ![user_id] = call.response]
    /\ NextUser
    /\ UNCHANGED <<label, failed>>

\* crawl_user 97-99, process_requests 71-76: the label of the second-to-last
\* link is last_page; the calls for pages 2..last_page are created and the
\* first wave is started.
CrawlPaginated ==
    /\ pc = "page1"
    /\ call.status = "returned"
    /\ call.response.kind # "moved"
    /\ call.response.last_page > 0
    /\ last_page' = call.response.last_page
    /\ label' = [label EXCEPT ![user_id] = call.response.last_page]
    /\ first' = [first EXCEPT ![user_id] = call.response]
    /\ tasks' = StartWave([p \in 2..call.response.last_page |-> NewCall(user_id, p)], 0)
    /\ wave' = 0
    /\ page_responses' = <<>>
    /\ pc' = "requests"
    /\ call' = Finished(call)
    /\ UNCHANGED <<user_id, saved, files, failed, returned>>
    /\ UNCHANGED dbVars
    /\ UNCHANGED rowVars

\* One client.get of a call of the running wave.
WaveAttempt(p) ==
    /\ pc = "requests"
    /\ p \in WavePages(wave)
    /\ tasks[p].status = "running"
    /\ \E c \in GetRequestStep(tasks[p], CrawlFaults) :
          tasks' = [tasks EXCEPT ![p] = c]
    /\ UNCHANGED <<call, pc, user_id, last_page, wave, page_responses, saved,
                   files, label, first, failed, returned>>
    /\ UNCHANGED dbVars
    /\ UNCHANGED rowVars

\* A crawl that writes what it had gathered when a call of the wave raises.
WaveRaisedSavesFetched ==
    /\ pc = "requests"
    /\ \E p \in WavePages(wave) : tasks[p].status = "raised"
    /\ pc' = "crashed"
    /\ failed' = failed \cup {user_id}
    /\ files' = files \cup {<<user_id, page_responses[k].page>> :
                                k \in 1..Len(page_responses)}
    /\ UNCHANGED <<call, user_id, last_page, tasks, wave, page_responses,
                   saved, label, first, returned>>
    /\ UNCHANGED dbVars
    /\ UNCHANGED rowVars

\* process_requests 76: a call of the wave raised; gather raises it.
WaveRaised ==
    /\ pc = "requests"
    /\ \E p \in WavePages(wave) : tasks[p].status = "raised"
    /\ Propagate

\* process_requests 74-79, crawl_user 100: the wave's gather returned.  Its
\* responses are appended; the next wave starts, or process_html_files
\* begins with its first wave of saves.
WaveDone ==
    /\ pc = "requests"
    /\ \A p \in WavePages(wave) : tasks[p].status = "returned"
    /\ page_responses' = page_responses \o WaveResponses(wave)
    /\ IF wave + MAX_ASYNC_TASKS < Cardinality(DOMAIN tasks)
       THEN /\ wave' = wave + MAX_ASYNC_TASKS
            /\ tasks' = StartWave(EndWave(tasks, wave), wave + MAX_ASYNC_TASKS)
            /\ pc' = "requests"
       ELSE /\ wave' = 0
            /\ tasks' = EndWave(tasks, wave)
            /\ pc' = "saving"
    /\ saved' = {}
    /\ UNCHANGED <<call, user_id, last_page, files, label, first, failed, returned>>
    /\ UNCHANGED dbVars
    /\ UNCHANGED rowVars

\* process_html_files 86: one save_html of the running save wave.
SaveStep(k) ==
    /\ pc = "saving"
    /\ k \in SaveWave(wave) \ saved
    /\ files' = SaveHtml(files, user_id, page_responses[k])
    /\ saved' = saved \cup {k}
    /\ UNCHANGED <<call, pc, user_id, last_page, tasks, wave, page_responses,
                   label, first, failed, returned>>
    /\ UNCHANGED dbVars
    /\ UNCHANGED rowVars

\* process_html_files 84-87: the save wave's gather returned and another
\* wave follows.
SaveWaveNext ==
    /\ pc = "saving"
    /\ SaveWave(wave) \subseteq saved
    /\ wave + MAX_ASYNC_TASKS < Len(page_responses)
    /\ wave' = wave + MAX_ASYNC_TASKS
    /\ UNCHANGED <<call, pc, user_id, last_page, tasks, page_responses, saved,
                   files, label, first, failed, returned>>
    /\ UNCHANGED dbVars
    /\ UNCHANGED rowVars

\* process_html_files returns, and crawl_user with it.
SaveAllDone ==
    /\ pc = "saving"
    /\ SaveWave(wave) \subseteq saved
    /\ wave + MAX_ASYNC_TASKS >= Len(page_responses)
    /\ NextUser
    /\ UNCHANGED <<files, label, first, failed>>

NextCrawl ==
    \/ StartCrawl
    \/ Finish
    \/ Page1Attempt
    \/ Page1Raised
    \/ CrawlMoved
    \/ CrawlSinglePage
    \/ CrawlPaginated
    \/ \E p \in 2..MaxPages : WaveAttempt(p)
    \/ WaveRaised
    \/ WaveDone
    \/ \E k \in 1..MaxPages : SaveStep(k)
    \/ SaveWaveNext
    \/ SaveAllDone

SpecCrawl == InitCrawl /\ [][NextCrawl]_vars

\* ------------------------------------------------------ claims on the crawl

FilesOf(u) == {f \in files : f[1] = u}

\* C1: a subject whose page 1 carries the last-page label N, crawled with no
\* fetch exhausting its retries, has exactly the N artifacts of pages 1..N.
C1_AllPagesPersisted ==
    \A u \in returned :
        label[u] > 0 => FilesOf(u) = {<<u, p>> : p \in 1..label[u]}

\* C2: crawling is atomic per subject: a subject one of whose fetches
\* exhausted its retries, in any wave, has no artifact at all.
C2_AtomicPerSubject == \A u \in failed : FilesOf(u) = {}

\* A fetch of a later wave failed after an earlier wave had been gathered.
C2_Witness ==
    /\ pc = "crashed"
    /\ user_id \in failed
    /\ Len(page_responses) > 0
    /\ \E p \in DOMAIN tasks : tasks[p].status = "raised"

\* C3: a fetch retries up to the ceiling of the fault's class: 20 attempts
\* when every attempt ends in a read-timeout, 5 when every attempt ends in
\* another caught fault; at the ceiling the fault leaves get_request and no
\* further attempt is made; an attempt that succeeds returns the response.
C3_RetryCeilings ==
    /\ (call.status = "raised" /\ call.exc = ReadTimeout /\ ~call.seenOther)
          => call.calls = 20
    /\ (call.status = "raised" /\ call.exc \in Transient \ {ReadTimeout}
           /\ ~call.seenRT)
          => call.calls = 5
    /\ (call.status = "raised" /\ call.exc \in Transient)
          => call.attempt >= Ceiling(call.exc)
    /\ (call.status = "running" /\ ~call.seenOther) => call.calls < 20
    /\ (call.status = "running" /\ ~call.seenRT) => call.calls < 5
    /\ call.status = "returned"
          => /\ call.response \in ResponsesFor(call.page_number)
             /\ call.calls <= 20
             /\ call.exc = "none"

\* Twenty read-timeouts in a row: the twentieth is raised.
C3_Witness ==
    /\ call.status = "raised"
    /\ call.exc = ReadTimeout
    /\ ~call.seenOther
    /\ call.calls = 20

\* C4: a fetch failure ends only its subject's crawl: when the run is over,
\* every later subject id of the range has been crawled.
C4_LaterSubjectsCrawled ==
    pc \in {"done", "crashed"} =>
        \A u \in failed :
            \A v \in (u + 1)..USER_ID_END : v \in returned \cup failed


\* The fetches of later pages that have been started and have not ended.
InFlight == {p \in DOMAIN tasks : tasks[p].status = "running"}

\* The wave of page p: page_tasks[k] fetches page k + 2 and the waves are
\* the consecutive slices of MAX_ASYNC_TASKS tasks.
WaveOf(p) == (p - 2) \div MAX_ASYNC_TASKS

\* C12: the fetches of a subject in flight at the same time never exceed the
\* cap MAX_ASYNC_TASKS: pages 2..N are fetched in waves of at most that many,
\* and no fetch of a wave has started while a fetch of an earlier wave has
\* not completed.
C12_InFlightCap ==
    /\ Cardinality(InFlight) + (IF call.status = "running" THEN 1 ELSE 0)
          <= MAX_ASYNC_TASKS
    /\ \A p \in DOMAIN tasks :
          Cardinality({q \in DOMAIN tasks : WaveOf(q) = WaveOf(p)})
              <= MAX_ASYNC_TASKS
    /\ \A p, q \in DOMAIN tasks :
          (WaveOf(p) < WaveOf(q) /\ tasks[q].status # "pending")
              => tasks[p].status = "finished"

\* A full first wave has completed and a fetch of the second wave is in
\* flight.
C12_Witness ==
    /\ pc = "requests"
    /\ Cardinality({p \in DOMAIN tasks : tasks[p].status = "finished"})
          = MAX_ASYNC_TASKS
    /\ \E q \in InFlight : WaveOf(q) = 1

\* C13: a valid subject whose page 1 has no pagination control: crawl_user
\* fetches page 1 only and persists exactly one page body, keyed as page 1.
C13_SinglePageSubject ==
    /\ \A u \in USER_ID_START..USER_ID_END :
          (first[u].kind = "listing" /\ first[u].last_page = 0)
              => /\ u \in returned
                 /\ FilesOf(u) = {<<u, 1>>}
                 /\ label[u] = 0
    /\ tasks # Idle => first[user_id].last_page > 0

\* A subject whose page 1 was a listing without pagination links has been
\* crawled.
C13_Witness ==
    \E u \in returned :
        /\ first[u].kind = "listing"
        /\ first[u].last_page = 0
        /\ FilesOf(u) # {}

\* The ways crawl_user and save_html find a subject unavailable.
Unavailable == {"moved", "root", "restricted"}

\* C14: an unavailable subject (redirect to the site root with a 301 on the
\* first hop, restricted-profile marker, or moved status on the primary
\* request) is not an error: crawl_user returns without raising, no artifact
\* of the subject is persisted, and main's loop is at a later subject.
C14_UnavailableSkipped ==
    \A u \in USER_ID_START..USER_ID_END :
        first[u].kind \in Unavailable
            => /\ u \in returned
               /\ u \notin failed
               /\ FilesOf(u) = {}
               /\ user_id > u

\* A restricted profile was skipped and the next subject's page 1 is being
\* fetched.
C14_Witness ==
    /\ pc = "page1"
    /\ call.status = "running"
    /\ user_id > USER_ID_START
    /\ first[user_id - 1].kind = "restricted"
    /\ user_id - 1 \in returned

\* C19: get_request has one attempt counter for all fault classes and takes
\* the ceiling from the class of the current fault only: whatever the mix
\* of transient faults, a fetch ends, with a response or a raised fault,
\* after at most 20 attempts, and a fault other than a read-timeout on
\* attempt 5 or later ends it even when every earlier fault was a
\* read-timeout.
C19_SharedAttemptCounter ==
    /\ call.calls <= 20
    /\ call.status = "running" =>
          /\ call.calls < 20
          /\ call.attempt = call.calls + 1
          /\ call.fault \in Transient \ {ReadTimeout} => call.calls < 5
    /\ (call.status = "raised" /\ call.exc \in Transient) =>
          /\ call.fault = call.exc
          /\ call.exc = ReadTimeout => call.calls = 20
          /\ call.exc # ReadTimeout => call.calls >= 5

\* Five read-timeouts, then a connect error on attempt 6: it is raised.
C19_Witness ==
    /\ call.status = "raised"
    /\ call.exc = "ConnectError"
    /\ call.calls = 6
    /\ call.rts = 5

\* ------------------------------------------- extraction (db_population.py)

\* A lookup that takes the first key found inside the text.
RATINGSBySubstring(text) ==
    CASE text = "it was amazing" -> 5
      [] text = "liked it" \/ text = "really liked it" -> 3
      [] text = "it was ok" -> 2
      [] text = "did not like it" -> 1
      [] OTHER -> 0

\* RATINGS (25-31) and RATINGS.get(text, 0) of line 133.
RATINGS(text) ==
    CASE text = "it was amazing" -> 5
      [] text = "really liked it" -> 4
      [] text = "liked it" -> 3
      [] text = "it was ok" -> 2
      [] text = "did not like it" -> 1
      [] OTHER -> 0

\* extract_user's black_list_terms (78).
BlackListTerms ==
    {"Sign in to learn more", "author/show", "Meet your next favorite book"}

\* A row tr.bookalike as extract_books reads it: whether the title link
\* matches /book/show/<digits> (href_ok), whether the author cell has a link
\* matching /author/show/<digits> (has_author), and the fields.
BookRow(bid, title, hrefOk, hasAuthor, aid, author, text) ==
    [book_id |-> bid, title |-> title, href_ok |-> hrefOk,
     has_author |-> hasAuthor, author_id |-> aid, author |-> author,
     rating_text |-> text]

\* A page as the extractor reads it: the meta description, the name the
\* title's "<name>'s" pattern captures ("" when it does not match), the
\* no-content marker and the rows.
Page(meta, name, nocontent, rows) ==
    [meta |-> meta, name |-> name, nocontent |-> nocontent, rows |-> rows]

Row42A == BookRow(42, "T", TRUE, TRUE, 10, "A", "it was amazing")
Row42B == BookRow(42, "T", TRUE, TRUE, 10, "B", "liked it")
Row43 == BookRow(43, "U", TRUE, FALSE, 0, "", "")
RowBad == BookRow(44, "V", FALSE, TRUE, 11, "C", "it was ok")

\* The pages a file of the folder can hold in the model.
Htmls ==
    { Page("reviews", "A", FALSE, {Row42A}),
      Page("reviews", "B", FALSE, {Row42B}),
      Page("reviews", "A", FALSE, {Row42A, Row43}),
      Page("Sign in to learn more", "A", FALSE, {Row42A, RowBad}),
      Page("reviews", "A", TRUE, {Row42A}),
      Page("reviews", "A", FALSE, {Row42B, RowBad}),
      Page("reviews", "", FALSE, {Row42A}) }

\* The files of the folder, user_<id>_<page>.html, in the order the file
\* index lists them.
PathOrder == << <<7, 1>>, <<7, 2>>, <<8, 1>> >>
Paths == {PathOrder[i] : i \in 1..Len(PathOrder)}

\* get_user_id_from_path (62-67): the digits after "user_".
get_user_id_from_path(path) == path[1]

None == [cls |-> "None"]

User(id, name) == [cls |-> "User", id |-> id, name |-> name]
Author(id, name) == [cls |-> "Author", id |-> id, name |-> name]
Book(id, title, author) ==
    [cls |-> "Book", id |-> id, title |-> title, author |-> author]
Rating(u, b, score) ==
    [cls |-> "Rating", user_id |-> u, book_id |-> b, user_rating |-> score]

\* __eq__ / __hash__ of models.py: a record's identity in a set.
Key(r) ==
    IF r.cls = "Rating" THEN <<"Rating", r.user_id, r.book_id>>
    ELSE <<r.cls, r.id, 0>>

\* An extract_user without the black list.
ExtractUserNoBlackList(uid, html) ==
    IF html.name # "" THEN User(uid, html.name) ELSE None

\* extract_user (77-86).
extract_user(uid, html) ==
    IF html.meta \in BlackListTerms THEN None
    ELSE IF html.name # "" THEN User(uid, html.name)
    ELSE None

\* extract_books raises ValueError (109-111): a row's title link does not
\* match /book/show/<digits>.
ExtractBooksRaises(html) ==
    ~html.nocontent /\ \E row \in html.rows : ~row.href_ok

\* extract_books (100-151) when it does not raise: None (here {}) under the
\* no-content marker, else one BookInfo per row that has an author link.
extract_books(html) ==
    IF html.nocontent THEN {}
    ELSE {row \in html.rows : row.has_author}

\* The orders in which a set can be iterated.
Orders(S) ==
    {o \in [1..Cardinality(S) -> S] :
        \A i, j \in 1..Cardinality(S) : i # j => o[i] # o[j]}

\* set.add keeps the element already in the set when an equal one is added.
SetAdd(batch, rec) ==
    IF \E r \in batch : Key(r) = Key(rec) THEN batch ELSE batch \cup {rec}

\* The per-key record of the latest add (history).
LatestAdd(seen, rec) == {r \in seen : Key(r) # Key(rec)} \cup {rec}

\* batch_inserts.add of each record of recs, in order.
RECURSIVE AddAll(_, _)
AddAll(batch, recs) ==
    IF recs = <<>> THEN batch
    ELSE AddAll(SetAdd(batch, Head(recs)), Tail(recs))

RECURSIVE LatestAll(_, _)
LatestAll(seen, recs) ==
    IF recs = <<>> THEN seen
    ELSE LatestAll(LatestAdd(seen, Head(recs)), Tail(recs))

\* Lines 176-186: the adds of the loop over books_info, taken in order o.
RECURSIVE RowAdds(_, _)
RowAdds(uid, o) ==
    IF o = <<>> THEN <<>>
    ELSE << Book(Head(o).book_id, Head(o).title, Head(o).author),
            Rating(uid, Head(o).book_id, RATINGS(Head(o).rating_text)),
            Author(Head(o).author_id, Head(o).author) >>
         \o RowAdds(uid, Tail(o))

\* A prepare_data_for_db that goes on to the rows when extract_user gave no
\* User.
AddsWithoutUser(uid, html, o) ==
    IF extract_user(uid, html) = None
    THEN (IF ExtractBooksRaises(html) THEN <<>> ELSE RowAdds(uid, o))
    ELSE IF ExtractBooksRaises(html) THEN <<extract_user(uid, html)>>
    ELSE <<extract_user(uid, html)>> \o RowAdds(uid, o)

\* prepare_data_for_db (162-187): the records it adds to batch_inserts, in
\* order, before it returns or raises.
Adds(uid, html, o) ==
    IF extract_user(uid, html) = None THEN <<>>
    ELSE IF ExtractBooksRaises(html) THEN <<extract_user(uid, html)>>
    ELSE <<extract_user(uid, html)>> \o RowAdds(uid, o)

PrepareRaises(uid, html) ==
    extract_user(uid, html) # None /\ ExtractBooksRaises(html)

\* ------------------------------------------------ merge (db_population.py)

\* session.merge (215): a record whose primary key is set replaces the row of
\* that key or becomes a new row; a Rating is built without its primary key
\* (the autoincrement id, models.py 28), so it always becomes a new row.
SessionMerge(st, rec) ==
    IF rec.cls = "Rating"
    THEN [st EXCEPT !.Rating = @ \cup
             {[id |-> Cardinality(@) + 1, user_id |-> rec.user_id,
               book_id |-> rec.book_id, user_rating |-> rec.user_rating]}]
    ELSE [st EXCEPT ![rec.cls] = {x \in @ : x.id # rec.id} \cup {rec}]

\* A loop that takes the classes in another order.
ClassOrderRatingFirst == <<"Rating", "User", "Author", "Book">>

\* Line 213: for model_cls in [User, Author, Book, Rating].
ClassOrder == <<"User", "Author", "Book", "Rating">>

ClassRank(cls) == CHOOSE i \in 1..Len(ClassOrder) : ClassOrder[i] = cls

\* Lines 213-214: the records the loops can reach next.
NextToMerge(todo) ==
    {r \in todo : \A x \in todo : ClassRank(r.cls) <= ClassRank(x.cls)}

\* The store has no table of processed source files (models.py).
ProcessedSource == {}

\* -------------------------------------------------------------- SpecIngest

\* The largest --chunk_size of the model.
MaxChunkSize == 2

NumChunks == (Len(files_df) + chunk_size - 1) \div chunk_size

\* itertools.batched (233): the files of the k-th batch.
Chunk(k) ==
    {files_df[i] : i \in {j \in 1..Len(files_df) :
                            (k - 1) * chunk_size < j /\ j <= k * chunk_size}}

InitIngest ==
    /\ InitRowIdle
    /\ call = NewCall(USER_ID_START, 1)
    /\ InitCrawlRest
    /\ disk \in [Paths -> Htmls]
    /\ chunk_size \in 1..MaxChunkSize
    /\ files_df = <<>>
    /\ chunk_no = 0
    /\ pc_db = "list"
    /\ html_file_contents = {}
    /\ batch_inserts = {}
    /\ raised = FALSE
    /\ to_merge = {}
    /\ session = EmptyStore
    /\ merged = <<>>
    /\ store = EmptyStore
    /\ ingested = {}
    /\ latest = {}
    /\ latest_run = {}
    /\ last_merged = {}

\* main 228: extract_file_list lists the folder's files.
ListFiles ==
    /\ pc_db = "list"
    /\ files_df' = SelectSeq(PathOrder, LAMBDA f : f \in DOMAIN disk)
    /\ chunk_no' = 1
    /\ pc_db' = "read"
    /\ UNCHANGED <<disk, chunk_size, html_file_contents, batch_inserts, raised,
                   to_merge, session, merged, store, ingested, latest,
                   latest_run, last_merged>>
    /\ UNCHANGED crawlVars
    /\ UNCHANGED rowVars

\* main 233-235, get_file_contents (190-193), get_inserts 197: the next batch
\* of files is read into a set of (user_id, html) pairs.
ReadChunk ==
    /\ pc_db = "read"
    /\ chunk_no <= NumChunks
    /\ html_file_contents' =
          {<<get_user_id_from_path(f), disk[f]>> : f \in Chunk(chunk_no)}
    /\ batch_inserts' = {}
    /\ latest' = {}
    /\ raised' = FALSE
    /\ pc_db' = "extract"
    /\ UNCHANGED <<disk, chunk_size, files_df, chunk_no, to_merge, session,
                   merged, store, ingested, latest_run,
                   last_merged>>
    /\ UNCHANGED crawlVars
    /\ UNCHANGED rowVars

\* main 233: no batch is left.
FinishIngest ==
    /\ pc_db = "read"
    /\ chunk_no > NumChunks
    /\ pc_db' = "done"
    /\ UNCHANGED <<disk, chunk_size, files_df, chunk_no, html_file_contents,
                   batch_inserts, raised, to_merge, session, merged, store,
                   ingested, latest, latest_run,
                   last_merged>>
    /\ UNCHANGED crawlVars
    /\ UNCHANGED rowVars

\* One task of get_inserts' gather: prepare_data_for_db has no await, so it
\* runs from start to end; the tasks run in any order.
Extract(t) ==
    /\ pc_db = "extract"
    /\ t \in html_file_contents
    /\ html_file_contents' = html_file_contents \ {t}
    /\ \E o \in Orders(extract_books(t[2])) :
          /\ batch_inserts' = AddAll(batch_inserts, Adds(t[1], t[2], o))
          /\ latest' = LatestAll(latest, Adds(t[1], t[2], o))
          /\ latest_run' = LatestAll(latest_run, Adds(t[1], t[2], o))
    /\ raised' = (raised \/ PrepareRaises(t[1], t[2]))
    /\ UNCHANGED <<disk, chunk_size, files_df, chunk_no, pc_db, to_merge,
                   session, merged, store, ingested, last_merged>>
    /\ UNCHANGED crawlVars
    /\ UNCHANGED rowVars

\* get_inserts 200: a task raised; gather raises it, and neither get_inserts
\* nor main (233-238) catches it: the run ends.
ExtractRaised ==
    /\ pc_db = "extract"
    /\ raised
    /\ pc_db' = "crashed"
    /\ UNCHANGED <<disk, chunk_size, files_df, chunk_no, html_file_contents,
                   batch_inserts, raised, to_merge, session, merged, store,
                   ingested, latest, latest_run,
                   last_merged>>
    /\ UNCHANGED crawlVars
    /\ UNCHANGED rowVars

\* main 237, remove_files (204-206), then merge_records_to_db 210-212 opens
\* its session: the batch's files are removed before the merge.
RemoveFiles ==
    /\ pc_db = "extract"
    /\ html_file_contents = {}
    /\ ~raised
    /\ disk' = [f \in DOMAIN disk \ Chunk(chunk_no) |-> disk[f]]
    /\ to_merge' = batch_inserts
    /\ session' = store
    /\ merged' = <<>>
    /\ pc_db' = "merge"
    /\ UNCHANGED <<chunk_size, files_df, chunk_no, html_file_contents,
                   batch_inserts, raised, store, ingested, latest, latest_run,
                   last_merged>>
    /\ UNCHANGED crawlVars
    /\ UNCHANGED rowVars

\* MergeStep with a connection in autocommit mode: every session.merge is
\* committed on its own.
MergeStepAutocommit(r) ==
    /\ pc_db = "merge"
    /\ r \in NextToMerge(to_merge)
    /\ session' = SessionMerge(session, r)
    /\ store' = SessionMerge(session, r)
    /\ merged' = Append(merged, r)
    /\ to_merge' = to_merge \ {r}
    /\ UNCHANGED <<disk, chunk_size, files_df, chunk_no, pc_db,
                   html_file_contents, batch_inserts, raised, ingested,
                   latest, latest_run,
                   last_merged>>
    /\ UNCHANGED crawlVars
    /\ UNCHANGED rowVars

\* merge_records_to_db 213-216: one session.merge.
MergeStep(r) ==
    /\ pc_db = "merge"
    /\ r \in NextToMerge(to_merge)
    /\ session' = SessionMerge(session, r)
    /\ merged' = Append(merged, r)
    /\ to_merge' = to_merge \ {r}
    /\ UNCHANGED <<disk, chunk_size, files_df, chunk_no, pc_db,
                   html_file_contents, batch_inserts, raised, store, ingested,
                   latest, latest_run,
                   last_merged>>
    /\ UNCHANGED crawlVars
    /\ UNCHANGED rowVars

\* merge_records_to_db 217: session.commit; main goes on to the next batch.
Commit ==
    /\ pc_db = "merge"
    /\ to_merge = {}
    /\ store' = session
    /\ ingested' = ingested \cup Chunk(chunk_no)
    /\ last_merged' = LatestAll(last_merged, merged)
    /\ chunk_no' = chunk_no + 1
    /\ pc_db' = "read"
    /\ UNCHANGED <<disk, chunk_size, files_df, html_file_contents,
                   batch_inserts, raised, to_merge, session, merged, latest,
                   latest_run>>
    /\ UNCHANGED crawlVars
    /\ UNCHANGED rowVars

\* A statement of the transaction fails (212-217): the session is closed
\* without a commit, the exception leaves merge_records_to_db and main.
StorageFault ==
    /\ pc_db = "merge"
    /\ session' = store
    /\ pc_db' = "crashed"
    /\ UNCHANGED <<disk, chunk_size, files_df, chunk_no, html_file_contents,
                   batch_inserts, raised, to_merge, merged, store, ingested,
                   latest, latest_run,
                   last_merged>>
    /\ UNCHANGED crawlVars
    /\ UNCHANGED rowVars

NextIngest ==
    \/ ListFiles
    \/ ReadChunk
    \/ FinishIngest
    \/ \E t \in html_file_contents : Extract(t)
    \/ ExtractRaised
    \/ RemoveFiles
    \/ \E r \in to_merge : MergeStep(r)
    \/ Commit
    \/ StorageFault

SpecIngest == InitIngest /\ [][NextIngest]_vars

\* -------------------------------------------------- claims on the ingestion

RowsOfPair(u, b) == {x \in store.Rating : x.user_id = u /\ x.book_id = b}

\* C5: merging is an idempotent upsert on (user_id, book_id): the store holds
\* exactly one Rating row for every pair merged so far, and its score is that
\* of the Rating merged last for the pair.
C5_RatingUpsert ==
    \A r \in {x \in last_merged : x.cls = "Rating"} :
        /\ Cardinality(RowsOfPair(r.user_id, r.book_id)) = 1
        /\ \A x \in RowsOfPair(r.user_id, r.book_id) :
               x.user_rating = r.user_rating

\* C6: the chunk's batch holds exactly one record per natural key, and it
\* is the record added last for that key.
C6_BatchLastAddedWins == batch_inserts = latest

\* C7: when every chunk has been merged, the store holds exactly one User,
\* Author and Book row per id extracted, and the row is the record of the
\* extraction applied last, whether or not the extractions shared a chunk.
C7_StoreLastExtractedWins ==
    pc_db = "done" =>
        \A r \in {x \in latest_run : x.cls # "Rating"} :
            {x \in store[r.cls] : x.id = r.id} = {r}

\* C8: an extraction failure is caught per source: when the run is over, no
\* source whose extraction does not fail is left in the folder unmerged.
C8_ExtractionFailureIsolated ==
    (pc_db = "done" \/ (pc_db = "crashed" /\ raised)) =>
        \A f \in DOMAIN disk :
            ~PrepareRaises(get_user_id_from_path(f), disk[f]) => f \in ingested

\* C9: a source file is removed only after the records extracted from it
\* have been committed, so a chunk whose merge fails can be retried.
C9_RemovedOnlyAfterCommit ==
    \A f \in Paths : f \notin DOMAIN disk => f \in ingested

\* C10: the store records every ingested path as a ProcessedSource, and the
\* work-list of a run is the candidate list minus the recorded paths.
C10_ProcessedSourcesRecorded ==
    /\ ingested \subseteq ProcessedSource
    /\ pc_db # "list" =>
          {files_df[i] : i \in 1..Len(files_df)} = Paths \ ProcessedSource

\* The store st holds the record rec of a batch: a row of rec's key, and for
\* a Rating a row of its pair with its score.
Holds(st, rec) ==
    IF rec.cls = "Rating"
    THEN \E x \in st.Rating : /\ x.user_id = rec.user_id
                              /\ x.book_id = rec.book_id
                              /\ x.user_rating = rec.user_rating
    ELSE rec \in st[rec.cls]

\* C11: the merge of a chunk is one atomic transaction: the committed store
\* changes only in the step that commits a whole batch, after which it holds
\* every record of that batch; a step that ends the merge with a failure,
\* whether of a write or of the commit, leaves the committed store as it was
\* before the chunk.
C11_MergeAtomic ==
    [][/\ store' # store =>
            /\ pc_db = "merge" /\ pc_db' = "read"
            /\ to_merge = {}
            /\ \A r \in batch_inserts : Holds(store', r)
       /\ pc_db' = "crashed" => store' = store]_vars

\* A write of the merge failed after other writes of the batch had been
\* made, and the store holds none of the batch's records.
C11_Witness ==
    /\ pc_db = "crashed"
    /\ ~raised
    /\ Len(merged) >= 2
    /\ to_merge # {}
    /\ \A r \in batch_inserts : ~Holds(store, r)

\* C15: a source whose meta description carries a blacklisted phrase adds no
\* record of any type to the chunk's batch and raises no error; a source that
\* yields a User and carries the no-content marker adds the User and nothing
\* else.
C15_BlackListedAndEmptySources ==
    [][\A t \in html_file_contents \ html_file_contents' :
          /\ t[2].meta \in BlackListTerms
                => /\ batch_inserts' = batch_inserts
                   /\ latest' = latest
                   /\ raised' = raised
          /\ (t[2].meta \notin BlackListTerms /\ t[2].name # ""
                 /\ t[2].nocontent)
                => /\ batch_inserts' \subseteq
                          batch_inserts \cup {User(t[1], t[2].name)}
                   /\ \E r \in batch_inserts' :
                          r.cls = "User" /\ r.id = t[1]
                   /\ latest' = LatestAdd(latest, User(t[1], t[2].name))
                   /\ raised' = raised]_vars

\* The one source of a chunk was blacklisted and had a row that would make
\* extract_books raise: its task has ended, the batch is empty and nothing
\* was raised.
C15_Witness ==
    /\ pc_db = "extract"
    /\ html_file_contents = {}
    /\ batch_inserts = {}
    /\ ~raised
    /\ \E f \in Chunk(chunk_no) :
          /\ disk[f].meta \in BlackListTerms
          /\ \E row \in disk[f].rows : ~row.href_ok

\* The stage of a record's type in the sequence the claim states.
Stage(cls) ==
    CASE cls \in {"User", "Author"} -> 1
      [] cls = "Book" -> 2
      [] cls = "Rating" -> 3

\* C18: within one chunk's merge the writes are sequenced by entity type:
\* every User and Author record of the batch is merged before any Book
\* record and every Book record before any Rating record, so a Rating is
\* never written before the User and the Book it references.
C18_MergeOrder ==
    /\ \A i, j \in 1..Len(merged) :
          i < j => Stage(merged[i].cls) <= Stage(merged[j].cls)
    /\ \A j \in 1..Len(merged) :
          /\ \A x \in to_merge : Stage(x.cls) >= Stage(merged[j].cls)
          /\ merged[j].cls = "Rating" =>
                /\ \E i \in 1..(j - 1) :
                      merged[i].cls = "User" /\ merged[i].id = merged[j].user_id
                /\ \E i \in 1..(j - 1) :
                      merged[i].cls = "Book" /\ merged[i].id = merged[j].book_id

\* Every write of a batch with records of all four types has been made.
C18_Witness ==
    /\ pc_db = "merge"
    /\ to_merge = {}
    /\ \A cls \in {"User", "Author", "Book", "Rating"} :
          \E i \in 1..Len(merged) : merged[i].cls = cls

\* The (user_id, html) pairs of the chunk in hand whose task has ended.
Extracted ==
    {<<get_user_id_from_path(f), disk[f]>> : f \in Chunk(chunk_no)}
        \ html_file_contents

\* The source's page yields a User: no blacklisted phrase and a name.
EmitsUser(html) == html.meta \notin BlackListTerms /\ html.name # ""

\* C20: the chunk's batch is referentially closed after every completed
\* extraction task: for every Rating (u, b) of the batch, the batch has a User
\* of id u and a Book of id b; for every Book added from a row the Author of
\* that row is in the batch; and no Book, Author or Rating is added for a
\* source that emitted no User.
C20_BatchClosed ==
    /\ \A r \in batch_inserts :
          r.cls = "Rating" =>
              /\ \E x \in batch_inserts : x.cls = "User" /\ x.id = r.user_id
              /\ \E x \in batch_inserts : x.cls = "Book" /\ x.id = r.book_id
    /\ pc_db = "extract" =>
          /\ \A t \in Extracted :
                (/\ EmitsUser(t[2])
                 /\ ~t[2].nocontent
                 /\ \A row \in t[2].rows : row.href_ok)
                    => \A row \in t[2].rows :
                          row.has_author =>
                              /\ \E x \in batch_inserts :
                                    x.cls = "Book" /\ x.id = row.book_id
                              /\ \E x \in batch_inserts :
                                    x.cls = "Author" /\ x.id = row.author_id
          /\ (\A t \in Extracted : ~EmitsUser(t[2])) => batch_inserts = {}
          /\ \A x \in batch_inserts :
                x.cls = "Rating" =>
                    \E t \in Extracted : t[1] = x.user_id /\ EmitsUser(t[2])

\* Both tasks of a chunk have ended: one source gave a Rating, the other
\* emitted no User.
C20_Witness ==
    /\ pc_db = "extract"
    /\ html_file_contents = {}
    /\ Cardinality(Extracted) = 2
    /\ \E r \in batch_inserts : r.cls = "Rating"
    /\ \E t \in Extracted : ~EmitsUser(t[2]) /\ t[2].rows # {}

\* ------------------------------- one row of extract_books (db_population.py)

\* The text of a date_pub cell, as a sequence of tokens separated by single
\* blanks: a word, a run of digits (ds), either of them with or without a
\* comma right after it, or a minus sign.
Word(w) == [t |-> "word", w |-> w, ds |-> <<>>, comma |-> FALSE]
Num(ds, comma) == [t |-> "num", w |-> "", ds |-> ds, comma |-> comma]
Minus == [t |-> "minus", w |-> "-", ds |-> <<>>, comma |-> FALSE]

\* The longest date text of the model, in tokens.
MaxTokens == 3

DateTokens ==
    {Word("Jan"), Word("Feb"), Word("unknown"), Minus,
     Num(<<0>>, FALSE), Num(<<5>>, FALSE), Num(<<3, 0>>, FALSE),
     Num(<<2, 0, 2, 0>>, FALSE), Num(<<5>>, TRUE), Num(<<3, 0>>, TRUE)}

DateStrs == UNION {[1..n -> DateTokens] : n \in 0..MaxTokens}

\* The rating cell's texts of the model: the keys of RATINGS and others.
Labels ==
    {"it was amazing", "really liked it", "liked it", "it was ok",
     "did not like it", "", "It Was Amazing", "liked"}

\* datetime.strptime raised ValueError.
ValueError == [cls |-> "ValueError"]

Datetime(y, m, d) == [cls |-> "datetime", year |-> y, month |-> m, day |-> d]

\* %b: the abbreviated month names.
MonthAbbr ==
    <<"Jan", "Feb", "Mar", "Apr", "May", "Jun", "Jul", "Aug", "Sep", "Oct",
      "Nov", "Dec">>

MonthOf(w) == CHOOSE m \in 1..Len(MonthAbbr) : MonthAbbr[m] = w

\* The number a run of digits writes.
RECURSIVE NumVal(_)
NumVal(ds) ==
    IF ds = <<>> THEN 0
    ELSE 10 * NumVal(SubSeq(ds, 1, Len(ds) - 1)) + ds[Len(ds)]

\* %d accepts 3[0-1], [1-2]\d, 0[1-9] and [1-9].
DayDigits(ds) ==
    \/ Len(ds) = 1 /\ ds[1] \in 1..9
    \/ /\ Len(ds) = 2
       /\ \/ ds[1] = 3 /\ ds[2] \in 0..1
          \/ ds[1] \in 1..2
          \/ ds[1] = 0 /\ ds[2] \in 1..9

\* A token against one directive of a format: %b a month name, "%d," a day
\* followed by the format's comma, %Y four digits, %y two digits.
Matches(tok, d) ==
    CASE d = "%b" ->
            tok.t = "word" /\ ~tok.comma
            /\ \E m \in 1..Len(MonthAbbr) : MonthAbbr[m] = tok.w
      [] d = "%d," -> tok.t = "num" /\ tok.comma /\ DayDigits(tok.ds)
      [] d = "%Y" -> tok.t = "num" /\ ~tok.comma /\ Len(tok.ds) = 4
      [] d = "%y" -> tok.t = "num" /\ ~tok.comma /\ Len(tok.ds) = 2
      [] OTHER -> FALSE

\* get_date_published 93: '%b %d, %Y', '%b %Y', '%Y', '%y'.
date_formats ==
    << <<"%b", "%d,", "%Y">>, <<"%b", "%Y">>, <<"%Y">>, <<"%y">> >>

IsLeap(y) == (y % 4 = 0 /\ y % 100 # 0) \/ y % 400 = 0

DaysInMonth(y, m) ==
    IF m = 2 THEN (IF IsLeap(y) THEN 29 ELSE 28)
    ELSE IF m \in {4, 6, 9, 11} THEN 30 ELSE 31

\* datetime.strptime(date_str, format): the whole text must match the
\* format; a two-digit year below 69 is of the 2000s, else of the 1900s; a
\* missing month or day is 1; a date that does not exist is a ValueError.
strptime(s, fmt) ==
    IF Len(s) # Len(fmt) \/ \E i \in 1..Len(fmt) : ~Matches(s[i], fmt[i])
    THEN ValueError
    ELSE LET At(d) == s[CHOOSE i \in 1..Len(fmt) : fmt[i] = d]
             Has(d) == \E i \in 1..Len(fmt) : fmt[i] = d
             year == IF Has("%Y") THEN NumVal(At("%Y").ds)
                     ELSE IF NumVal(At("%y").ds) < 69
                          THEN 2000 + NumVal(At("%y").ds)
                          ELSE 1900 + NumVal(At("%y").ds)
             month == IF Has("%b") THEN MonthOf(At("%b").w) ELSE 1
             day == IF Has("%d,") THEN NumVal(At("%d,").ds) ELSE 1
         IN  IF year < 1 \/ day > DaysInMonth(year, month) THEN ValueError
             ELSE Datetime(year, month, day)

\* Lines 94-97: the first format whose strptime does not raise.
RECURSIVE TryFormats(_, _)
TryFormats(s, fmts) ==
    IF fmts = <<>> THEN None
    ELSE IF strptime(s, Head(fmts)) # ValueError THEN strptime(s, Head(fmts))
    ELSE TryFormats(s, Tail(fmts))

\* A get_date_published whose strptime is not under suppress(ValueError).
GetDatePublishedNoSuppress(date_str) ==
    IF \/ date_str \in {<<Word("unknown")>>, <<Num(<<0>>, FALSE)>>}
       \/ (date_str # <<>> /\ Head(date_str).t = "minus")
    THEN None
    ELSE strptime(date_str, date_formats[1])

\* get_date_published (89-97).
get_date_published(date_str) ==
    IF \/ date_str \in {<<Word("unknown")>>, <<Num(<<0>>, FALSE)>>}
       \/ (date_str # <<>> /\ Head(date_str).t = "minus")
    THEN None
    ELSE TryFormats(date_str, date_formats)

\* ----------------------------------------------------------------- SpecRow

InitRow ==
    /\ InitDbIdle
    /\ call = NewCall(USER_ID_START, 1)
    /\ InitCrawlRest
    /\ row_pc = "rating"
    /\ date_published_str \in DateStrs
    /\ user_rating_text \in Labels
    /\ user_rating = 0
    /\ date_published = None

\* extract_books 133: user_rating = RATINGS.get(user_rating_text, 0).
MapRating ==
    /\ row_pc = "rating"
    /\ user_rating' = RATINGS(user_rating_text)
    /\ row_pc' = "date"
    /\ UNCHANGED <<date_published_str, user_rating_text, date_published>>
    /\ UNCHANGED <<crawlVars, dbVars>>

\* extract_books 148: date_published = get_date_published(date_published_str).
ParseDate ==
    /\ row_pc = "date"
    /\ date_published' = get_date_published(date_published_str)
    /\ row_pc' = "built"
    /\ UNCHANGED <<date_published_str, user_rating_text, user_rating>>
    /\ UNCHANGED <<crawlVars, dbVars>>

NextRow ==
    \/ MapRating
    \/ ParseDate

SpecRow == InitRow /\ [][NextRow]_vars

\* ---------------------------------------------------------- claims on a row

\* The indexes of the formats, in the order full month-day-year, month-year,
\* four-digit year, two-digit year, that parse the text s.
Parsing(s) ==
    {i \in 1..Len(date_formats) : strptime(s, date_formats[i]) # ValueError}

\* C16: get_date_published returns no date for "unknown", "0" and any text
\* that starts with "-"; otherwise it returns the result of the first of the
\* formats month-day-year, month-year, four-digit year, two-digit year that
\* parses the text, a missing day or month being 1; a text none of them
\* parses gives no date, and no text makes it raise.
C16_DatePublished ==
    row_pc = "built" =>
        LET s == date_published_str
            r == date_published
        IN  /\ r.cls \in {"None", "datetime"}
            /\ (\/ s \in {<<Word("unknown")>>, <<Num(<<0>>, FALSE)>>}
                \/ (s # <<>> /\ s[1] = Minus)) => r = None
            /\ Parsing(s) = {} => r = None
            /\ (Parsing(s) # {} /\ s # <<>> /\ s[1] # Minus)
                  => \E i \in Parsing(s) :
                        /\ \A j \in Parsing(s) : i <= j
                        /\ r = strptime(s, date_formats[i])
            /\ s = <<Word("Jan"), Num(<<5>>, TRUE), Num(<<2, 0, 2, 0>>, FALSE)>>
                  => r = Datetime(2020, 1, 5)
            /\ s = <<Word("Feb"), Num(<<2, 0, 2, 0>>, FALSE)>>
                  => r = Datetime(2020, 2, 1)
            /\ s = <<Num(<<2, 0, 2, 0>>, FALSE)>> => r = Datetime(2020, 1, 1)
            /\ s = <<Num(<<3, 0>>, FALSE)>> => r = Datetime(2030, 1, 1)
            /\ s = <<Word("Feb"), Num(<<3, 0>>, TRUE), Num(<<2, 0, 2, 0>>, FALSE)>>
                  => r = None

\* "Jan 2020" has been parsed by the second format, with day 1.
C16_Witness ==
    /\ row_pc = "built"
    /\ date_published_str = <<Word("Jan"), Num(<<2, 0, 2, 0>>, FALSE)>>
    /\ date_published = Datetime(2020, 1, 1)

\* C17: the mapping of rating labels is total: the five fixed phrases map to
\* 5..1 and every other label, the empty one included, maps to 0 without
\* raising, so the score of a row is in 0..5.
C17_RatingMapTotal ==
    row_pc # "rating" =>
        /\ user_rating \in 0..5
        /\ user_rating_text = "it was amazing" => user_rating = 5
        /\ user_rating_text = "really liked it" => user_rating = 4
        /\ user_rating_text = "liked it" => user_rating = 3
        /\ user_rating_text = "it was ok" => user_rating = 2
        /\ user_rating_text = "did not like it" => user_rating = 1
        /\ user_rating_text \notin
              {"it was amazing", "really liked it", "liked it", "it was ok",
               "did not like it"} => user_rating = 0

\* The empty label has been mapped to 0.
C17_Witness ==
    /\ row_pc = "date"
    /\ user_rating_text = ""
    /\ user_rating = 0

====
